---- MODULE Spec2Model ----
(***************************************************************************)
(* Model of the DA-inclusion advancement loop of the block manager         *)
(* (Manager.DAIncluderLoop, Manager.incrementDAIncludedHeight) together    *)
(* with the collaborators it talks to: the inclusion oracle, the executor's*)
(* SetFinal, the metadata store, the trigger channel and the context.      *)
(***************************************************************************)
EXTENDS Integers, Sequences, FiniteSets, TLC

\* ---------------------------------------------------------------- bounds
\* Highest height the inclusion oracle is ever able to confirm.
MaxHeight == 2
\* Saturation point of the counter of signals raised during one pass.
MaxBurst == 5

VARIABLES
  daIncludedHeight,    \* m.daIncludedHeight: the atomic cell (last published value)
  metadata,            \* store entry under DAIncludedHeightKey: <<>> or 8 bytes
  daIncluderCh,        \* number of signals buffered in m.daIncluderCh
  cancelled,           \* ctx.Done() is closed
  pc,                  \* position of the DAIncluderLoop goroutine
  currentDAIncluded,   \* local of DAIncluderLoop
  nextHeight,          \* local of DAIncluderLoop
  currentHeight,       \* local of incrementDAIncludedHeight
  newHeight,           \* local of incrementDAIncludedHeight
  err,                 \* which step made incrementDAIncludedHeight return an error
  oracle,              \* what IsDAIncluded answers for each height right now
  finalized,           \* history: heights for which SetFinal returned nil
  asked,               \* history: <<height, answer>> of IsDAIncluded in this pass
  passStart,           \* history: value of the cell read at the start of this pass
  steps,               \* history: steps of the current commit that were executed
  raised,              \* history: signals raised while the current pass is running
  burst,               \* history: signals raised while the previous pass was running
  passes,              \* history: passes begun since the last signal was raised
  bootAdvanced,        \* history: the last node start published a higher height
  rMode,               \* which fn Retry runs: "off", "retry", "blocks", "da"
  tries,               \* Retry: parameter tries
  i,                   \* Retry: loop counter
  retErr,              \* Retry: named result err (0 = nil, k = error of call k)
  rpc,                 \* Retry: position ("off", "cond", "call", "final", "done")
  result,              \* Retry: returned value (0 = nil, k = error of call k)
  calls,               \* history: number of invocations of fn
  fnOutcomes,          \* input: whether the k-th invocation of fn succeeds
  node,                \* input: dynamic type of the Node ("full", "light", "other")
  source,              \* input: the Source tag
  nTarget,             \* input: parameter n (target height) of the wait helper
  viewHeight,          \* input: height the polled view held at the last poll
  observed,            \* <<height, error>> the last poll obtained
  seen                 \* history: some poll obtained a height >= nTarget, no error

loopVars == <<daIncludedHeight, metadata, daIncluderCh, cancelled, pc,
              currentDAIncluded, nextHeight, currentHeight, newHeight, err,
              oracle, finalized, asked, passStart, steps, raised, burst,
              passes, bootAdvanced>>

retryVars == <<rMode, tries, i, retErr, rpc, result, calls, fnOutcomes, node,
               source, nTarget, viewHeight, observed, seen>>

vars == <<loopVars, retryVars>>

Heights == 1..MaxHeight
Answers == {"err", "no", "yes"}

\* ------------------------------------------------------------- helpers
Min(a, b) == IF a < b THEN a ELSE b

RECURSIVE PutUint64N(_, _)
\* binary.LittleEndian.PutUint64: least significant byte first.
PutUint64N(v, n) ==
  IF n = 0 THEN <<>> ELSE <<v % 256>> \o PutUint64N(v \div 256, n - 1)

RECURSIVE Uint64N(_, _)
\* binary.LittleEndian.Uint64 of the first n bytes of b (Horner, top byte first).
Uint64N(b, n) ==
  IF n = 0 THEN 0 ELSE b[1] + 256 * Uint64N(Tail(b), n - 1)

\* Height a restarting node loads from the store; absent entry = base height.
DurableHeight(meta) == IF meta = <<>> THEN 0 ELSE Uint64N(meta, Len(meta))

\* m.GetDAIncludedHeight(): atomic load of the cell.
GetDAIncludedHeight == daIncludedHeight

\* m.IsDAIncluded(ctx, h): nothing above MaxHeight is known to the caches.
IsDAIncluded(h) == IF h \in Heights THEN oracle[h] ELSE "err"

\* m.store.SetMetadata(ctx, key, value): a failing write leaves the entry.
SetMetadata(meta, value, ok) == IF ok THEN value ELSE meta

\* line 21: nextHeight := currentDAIncluded + 1
NextHeightOf(cur) == cur + 1

\* line 46: newHeight := currentHeight + 1
NewHeightOf(cur) == cur + 1

\* Variant: the height read from the cell is encoded instead of the new one.
HeightBytesStale(cur, new) == PutUint64N(cur, 8)

\* lines 53-54: heightBytes of the height that is being committed
HeightBytes(cur, new) == PutUint64N(new, 8)

\* ---------------------------------------------------------------- Init
InitLoop ==
  /\ daIncludedHeight = 0
  /\ metadata = <<>>
  /\ daIncluderCh = 0
  /\ cancelled = FALSE
  /\ pc = "idle"
  /\ currentDAIncluded = 0
  /\ nextHeight = 0
  /\ currentHeight = 0
  /\ newHeight = 0
  /\ err = "none"
  /\ oracle = [h \in Heights |-> "err"]
  /\ finalized = {}
  /\ asked = {}
  /\ passStart = 0
  /\ steps = <<>>
  /\ raised = 0
  /\ burst = 0
  /\ passes = 0
  /\ bootAdvanced = FALSE

\* No Retry is running.
RetryOff ==
  /\ rMode = "off"
  /\ tries = 0
  /\ i = 0
  /\ retErr = 0
  /\ rpc = "off"
  /\ result = 0
  /\ calls = 0
  /\ fnOutcomes = <<>>
  /\ node = "full"
  /\ source = 0
  /\ nTarget = 0
  /\ viewHeight = 0
  /\ observed = <<0, "nil">>
  /\ seen = FALSE

Init == InitLoop /\ RetryOff

Alive == pc \notin {"panicked", "crashed", "exited"}

history == <<finalized, asked, passStart, steps, raised, burst, passes,
             bootAdvanced>>
locals == <<currentDAIncluded, nextHeight, currentHeight, newHeight, err>>

\* ------------------------------------------------- environment actions
\* A producer's non-blocking send on the single-slot channel.
SendNonBlockingSignal ==
  /\ Alive
  /\ daIncluderCh' = Min(daIncluderCh + 1, 1)
  /\ raised' = IF pc = "idle" THEN raised ELSE Min(raised + 1, MaxBurst)
  /\ passes' = 0
  /\ UNCHANGED <<daIncludedHeight, metadata, cancelled, pc, locals, oracle,
                 finalized, asked, passStart, steps, burst, bootAdvanced>>
  /\ UNCHANGED retryVars

\* The context is cancelled.
Cancel ==
  /\ Alive
  /\ ~cancelled
  /\ cancelled' = TRUE
  /\ UNCHANGED <<daIncludedHeight, metadata, daIncluderCh, pc, locals, oracle,
                 history>>
  /\ UNCHANGED retryVars

\* The caches behind IsDAIncluded change their answer for one height.
OracleChange ==
  \E h \in Heights, a \in Answers :
    /\ oracle[h] # a
    /\ oracle' = [oracle EXCEPT ![h] = a]
    /\ UNCHANGED <<daIncludedHeight, metadata, daIncluderCh, cancelled, pc,
                   locals, history>>
    /\ UNCHANGED retryVars

\* ------------------------------------------------- DAIncluderLoop
\* Variant: the cancellation case leaves the select but not the loop.
LoopDoneBreak ==
  /\ pc = "idle"
  /\ cancelled
  /\ pc' = "load"
  /\ UNCHANGED <<daIncludedHeight, metadata, daIncluderCh, cancelled, locals,
                 oracle, history>>
  /\ UNCHANGED retryVars

\* lines 13-15: case <-ctx.Done(): return
LoopDone ==
  /\ pc = "idle"
  /\ cancelled
  /\ pc' = "exited"
  /\ UNCHANGED <<daIncludedHeight, metadata, daIncluderCh, cancelled, locals,
                 oracle, history>>
  /\ UNCHANGED retryVars

\* Variant: the signal is observed but not taken out of the channel.
LoopReceivePeek ==
  /\ pc = "idle"
  /\ daIncluderCh > 0
  /\ pc' = "load"
  /\ asked' = {}
  /\ burst' = raised
  /\ raised' = 0
  /\ passes' = passes + 1
  /\ UNCHANGED <<daIncludedHeight, metadata, daIncluderCh, cancelled, locals,
                 oracle, finalized, passStart, steps, bootAdvanced>>
  /\ UNCHANGED retryVars

\* lines 16-18: case <-m.daIncluderCh
LoopReceive ==
  /\ pc = "idle"
  /\ daIncluderCh > 0
  /\ daIncluderCh' = daIncluderCh - 1
  /\ pc' = "load"
  /\ asked' = {}
  /\ burst' = raised
  /\ raised' = 0
  /\ passes' = passes + 1
  /\ UNCHANGED <<daIncludedHeight, metadata, cancelled, locals, oracle,
                 finalized, passStart, steps, bootAdvanced>>
  /\ UNCHANGED retryVars

\* line 19: currentDAIncluded := m.GetDAIncludedHeight()
LoopLoad ==
  /\ pc = "load"
  /\ currentDAIncluded' = GetDAIncludedHeight
  /\ passStart' = GetDAIncludedHeight
  /\ pc' = "query"
  /\ UNCHANGED <<daIncludedHeight, metadata, daIncluderCh, cancelled,
                 nextHeight, currentHeight, newHeight, err, oracle,
                 finalized, asked, steps, raised, burst, passes, bootAdvanced>>
  /\ UNCHANGED retryVars

\* Variant: only the error is checked, the boolean result is not.
LoopQueryNoCheck ==
  /\ pc = "query"
  /\ LET next == NextHeightOf(currentDAIncluded)
         ans  == IsDAIncluded(next)
     IN /\ asked' = asked \cup {<<next, ans>>}
        /\ IF ans # "err"
             THEN /\ nextHeight' = next
                  /\ pc' = "incLoad"
                  /\ UNCHANGED currentDAIncluded
             ELSE /\ nextHeight' = 0
                  /\ currentDAIncluded' = 0
                  /\ pc' = "idle"
  /\ UNCHANGED <<daIncludedHeight, metadata, daIncluderCh, cancelled,
                 currentHeight, newHeight, err, oracle, finalized, passStart,
                 steps, raised, burst, passes, bootAdvanced>>
  /\ UNCHANGED retryVars

\* Variant: an unconfirmed height is stepped over instead of ending the pass.
LoopQuerySkipGap ==
  /\ pc = "query"
  /\ LET next == NextHeightOf(currentDAIncluded)
         ans  == IsDAIncluded(next)
     IN /\ asked' = asked \cup {<<next, ans>>}
        /\ IF ans = "yes"
             THEN /\ nextHeight' = next
                  /\ pc' = "incLoad"
                  /\ UNCHANGED currentDAIncluded
             ELSE IF ans = "no"
             THEN /\ nextHeight' = 0
                  /\ currentDAIncluded' = next
                  /\ pc' = "query"
             ELSE /\ nextHeight' = 0
                  /\ currentDAIncluded' = 0
                  /\ pc' = "idle"
  /\ UNCHANGED <<daIncludedHeight, metadata, daIncluderCh, cancelled,
                 currentHeight, newHeight, err, oracle, finalized, passStart,
                 steps, raised, burst, passes, bootAdvanced>>
  /\ UNCHANGED retryVars

\* Variant: the pass empties the channel when it stops at a gap.
LoopQueryFlush ==
  /\ pc = "query"
  /\ LET next == NextHeightOf(currentDAIncluded)
         ans  == IsDAIncluded(next)
     IN /\ asked' = asked \cup {<<next, ans>>}
        /\ IF ans = "yes"
             THEN /\ nextHeight' = next
                  /\ pc' = "incLoad"
                  /\ UNCHANGED <<currentDAIncluded, daIncluderCh>>
             ELSE /\ nextHeight' = 0
                  /\ currentDAIncluded' = 0
                  /\ daIncluderCh' = 0
                  /\ pc' = "idle"
  /\ UNCHANGED <<daIncludedHeight, metadata, cancelled,
                 currentHeight, newHeight, err, oracle, finalized, passStart,
                 steps, raised, burst, passes, bootAdvanced>>
  /\ UNCHANGED retryVars

\* lines 21-37: one IsDAIncluded query and the branch on its result
LoopQuery ==
  /\ pc = "query"
  /\ LET next == NextHeightOf(currentDAIncluded)
         ans  == IsDAIncluded(next)
     IN /\ asked' = asked \cup {<<next, ans>>}
        /\ IF ans = "yes"
             THEN /\ nextHeight' = next
                  /\ pc' = "incLoad"
                  /\ UNCHANGED currentDAIncluded
             ELSE /\ nextHeight' = 0
                  /\ currentDAIncluded' = 0
                  /\ pc' = "idle"
  /\ UNCHANGED <<daIncludedHeight, metadata, daIncluderCh, cancelled,
                 currentHeight, newHeight, err, oracle, finalized, passStart,
                 steps, raised, burst, passes, bootAdvanced>>
  /\ UNCHANGED retryVars

\* ------------------------------------------------- incrementDAIncludedHeight
\* lines 45-46
IncLoad ==
  /\ pc = "incLoad"
  /\ currentHeight' = GetDAIncludedHeight
  /\ newHeight' = NewHeightOf(GetDAIncludedHeight)
  /\ steps' = <<>>
  /\ pc' = "setFinal"
  /\ UNCHANGED <<daIncludedHeight, metadata, daIncluderCh, cancelled,
                 currentDAIncluded, nextHeight, err, oracle, finalized, asked,
                 passStart, raised, burst, passes, bootAdvanced>>
  /\ UNCHANGED retryVars

\* Variant: the error of SetFinal is logged but not returned.
IncSetFinalIgnore ==
  /\ pc = "setFinal"
  /\ steps' = Append(steps, "setFinal")
  /\ \E ok \in BOOLEAN :
       /\ finalized' = IF ok THEN finalized \cup {newHeight} ELSE finalized
       /\ pc' = "setMetadata"
       /\ UNCHANGED err
  /\ UNCHANGED <<daIncludedHeight, metadata, daIncluderCh, cancelled,
                 currentDAIncluded, nextHeight, currentHeight, newHeight,
                 oracle, asked, passStart, raised, burst, passes, bootAdvanced>>
  /\ UNCHANGED retryVars

\* lines 48-52 (and the panic of line 31 when an error is returned)
IncSetFinal ==
  /\ pc = "setFinal"
  /\ steps' = Append(steps, "setFinal")
  /\ \E ok \in BOOLEAN :
       IF ok
         THEN /\ finalized' = finalized \cup {newHeight}
              /\ pc' = "setMetadata"
              /\ UNCHANGED err
         ELSE /\ err' = "setFinal"
              /\ pc' = "panicked"
              /\ UNCHANGED finalized
  /\ UNCHANGED <<daIncludedHeight, metadata, daIncluderCh, cancelled,
                 currentDAIncluded, nextHeight, currentHeight, newHeight,
                 oracle, asked, passStart, raised, burst, passes, bootAdvanced>>
  /\ UNCHANGED retryVars

\* Variant: the error of SetMetadata is logged but not returned.
IncSetMetadataIgnore ==
  /\ pc = "setMetadata"
  /\ steps' = Append(steps, "setMetadata")
  /\ \E ok \in BOOLEAN :
       /\ metadata' = SetMetadata(metadata, HeightBytes(currentHeight, newHeight), ok)
       /\ pc' = "cas"
       /\ UNCHANGED err
  /\ UNCHANGED <<daIncludedHeight, daIncluderCh, cancelled,
                 currentDAIncluded, nextHeight, currentHeight, newHeight,
                 oracle, finalized, asked, passStart, raised, burst, passes,
                 bootAdvanced>>
  /\ UNCHANGED retryVars

\* Variant: the cell is swapped before the error of SetMetadata is checked.
IncSetMetadataCasFirst ==
  /\ pc = "setMetadata"
  /\ \E ok \in BOOLEAN :
       /\ metadata' = SetMetadata(metadata, HeightBytes(currentHeight, newHeight), ok)
       /\ IF ok
            THEN /\ pc' = "cas"
                 /\ steps' = Append(steps, "setMetadata")
                 /\ UNCHANGED <<err, daIncludedHeight>>
            ELSE /\ err' = "setMetadata"
                 /\ steps' = Append(Append(steps, "setMetadata"), "cas")
                 /\ daIncludedHeight' = newHeight
                 /\ pc' = "panicked"
  /\ UNCHANGED <<daIncluderCh, cancelled,
                 currentDAIncluded, nextHeight, currentHeight, newHeight,
                 oracle, finalized, asked, passStart, raised, burst, passes,
                 bootAdvanced>>
  /\ UNCHANGED retryVars

\* lines 53-60 (and the panic of line 31 when an error is returned)
IncSetMetadata ==
  /\ pc = "setMetadata"
  /\ steps' = Append(steps, "setMetadata")
  /\ \E ok \in BOOLEAN :
       /\ metadata' = SetMetadata(metadata, HeightBytes(currentHeight, newHeight), ok)
       /\ IF ok
            THEN /\ pc' = "cas"
                 /\ UNCHANGED err
            ELSE /\ err' = "setMetadata"
                 /\ pc' = "panicked"
  /\ UNCHANGED <<daIncludedHeight, daIncluderCh, cancelled,
                 currentDAIncluded, nextHeight, currentHeight, newHeight,
                 oracle, finalized, asked, passStart, raised, burst, passes, bootAdvanced>>
  /\ UNCHANGED retryVars

\* Variant: the pass ends after one committed height instead of continuing.
IncCompareAndSwapBreak ==
  /\ pc = "cas"
  /\ steps' = Append(steps, "cas")
  /\ IF daIncludedHeight = currentHeight
       THEN /\ daIncludedHeight' = newHeight
            /\ currentDAIncluded' = 0
            /\ nextHeight' = 0
            /\ currentHeight' = 0
            /\ newHeight' = 0
            /\ pc' = "idle"
            /\ UNCHANGED err
       ELSE /\ err' = "cas"
            /\ pc' = "panicked"
            /\ UNCHANGED <<daIncludedHeight, currentDAIncluded, nextHeight,
                           currentHeight, newHeight>>
  /\ UNCHANGED <<metadata, daIncluderCh, cancelled, oracle, finalized, asked,
                 passStart, raised, burst, passes, bootAdvanced>>
  /\ UNCHANGED retryVars

\* Variant: the cell is stored unconditionally instead of compared and swapped.
IncCompareAndSwapStore ==
  /\ pc = "cas"
  /\ steps' = Append(steps, "cas")
  /\ daIncludedHeight' = newHeight
  /\ currentDAIncluded' = nextHeight
  /\ nextHeight' = 0
  /\ currentHeight' = 0
  /\ newHeight' = 0
  /\ pc' = "query"
  /\ UNCHANGED err
  /\ UNCHANGED <<metadata, daIncluderCh, cancelled, oracle, finalized, asked,
                 passStart, raised, burst, passes, bootAdvanced>>
  /\ UNCHANGED retryVars

\* Variant: the arguments of CompareAndSwap are exchanged.
IncCompareAndSwapSwapped ==
  /\ pc = "cas"
  /\ steps' = Append(steps, "cas")
  /\ IF daIncludedHeight = newHeight
       THEN /\ daIncludedHeight' = currentHeight
            /\ currentDAIncluded' = nextHeight
            /\ nextHeight' = 0
            /\ currentHeight' = 0
            /\ newHeight' = 0
            /\ pc' = "query"
            /\ UNCHANGED err
       ELSE /\ err' = "cas"
            /\ pc' = "panicked"
            /\ UNCHANGED <<daIncludedHeight, currentDAIncluded, nextHeight,
                           currentHeight, newHeight>>
  /\ UNCHANGED <<metadata, daIncluderCh, cancelled, oracle, finalized, asked,
                 passStart, raised, burst, passes, bootAdvanced>>
  /\ UNCHANGED retryVars

\* lines 61-64, then line 33 on success or the panic of line 31 on failure
IncCompareAndSwap ==
  /\ pc = "cas"
  /\ steps' = Append(steps, "cas")
  /\ IF daIncludedHeight = currentHeight
       THEN /\ daIncludedHeight' = newHeight
            /\ currentDAIncluded' = nextHeight
            /\ nextHeight' = 0
            /\ currentHeight' = 0
            /\ newHeight' = 0
            /\ pc' = "query"
            /\ UNCHANGED err
       ELSE /\ err' = "cas"
            /\ pc' = "panicked"
            /\ UNCHANGED <<daIncludedHeight, currentDAIncluded, nextHeight,
                           currentHeight, newHeight>>
  /\ UNCHANGED <<metadata, daIncluderCh, cancelled, oracle, finalized, asked,
                 passStart, raised, burst, passes, bootAdvanced>>
  /\ UNCHANGED retryVars

\* ------------------------------------------------- process life cycle
\* The process stops at an arbitrary point; memory is lost, the store is kept.
\* daIncludedHeight keeps the last value a reader could have observed.
Crash ==
  /\ Alive
  /\ pc' = "crashed"
  /\ daIncluderCh' = 0
  /\ cancelled' = FALSE
  /\ currentDAIncluded' = 0
  /\ nextHeight' = 0
  /\ currentHeight' = 0
  /\ newHeight' = 0
  /\ err' = "none"
  /\ asked' = {}
  /\ passStart' = 0
  /\ steps' = <<>>
  /\ raised' = 0
  /\ burst' = 0
  /\ passes' = 0
  /\ UNCHANGED <<daIncludedHeight, metadata, oracle, finalized, bootAdvanced>>
  /\ UNCHANGED retryVars

\* Node start: the cell is initialised from the durable record.
Restart ==
  /\ ~Alive
  /\ pc' = "idle"
  /\ daIncludedHeight' = DurableHeight(metadata)
  /\ daIncluderCh' = 0
  /\ cancelled' = FALSE
  /\ currentDAIncluded' = 0
  /\ nextHeight' = 0
  /\ currentHeight' = 0
  /\ newHeight' = 0
  /\ err' = "none"
  /\ asked' = {}
  /\ passStart' = 0
  /\ steps' = <<>>
  /\ raised' = 0
  /\ burst' = 0
  /\ passes' = 0
  /\ bootAdvanced' = (DurableHeight(metadata) > daIncludedHeight)
  /\ UNCHANGED <<metadata, oracle, finalized>>
  /\ UNCHANGED retryVars

Next ==
  \/ SendNonBlockingSignal
  \/ Cancel
  \/ OracleChange
  \/ LoopDone
  \/ LoopReceive
  \/ LoopLoad
  \/ LoopQuery
  \/ IncLoad
  \/ IncSetFinal
  \/ IncSetMetadata
  \/ IncCompareAndSwap
  \/ Crash
  \/ Restart

Spec == Init /\ [][Next]_vars

\* The goroutine of the loop is scheduled whenever it can take a step.
LoopFairness ==
  /\ WF_vars(LoopDone)
  /\ WF_vars(LoopReceive)
  /\ WF_vars(LoopLoad)
  /\ WF_vars(LoopQuery)
  /\ WF_vars(IncLoad)
  /\ WF_vars(IncSetFinal)
  /\ WF_vars(IncSetMetadata)
  /\ WF_vars(IncCompareAndSwap)

FairSpec == Init /\ [][Next]_vars /\ LoopFairness

\* A second writer of the cell (the single-writer contract is broken): a
\* second instance of the loop completes a compare-and-swap of its own.
\* It is modelled where it matters: after this loop has read the cell (line 45)
\* and before its own compare-and-swap (line 61).
OtherWriter ==
  /\ pc \in {"setFinal", "setMetadata", "cas"}
  /\ daIncludedHeight < MaxHeight
  /\ daIncludedHeight' = daIncludedHeight + 1
  /\ UNCHANGED <<metadata, daIncluderCh, cancelled, pc, locals, oracle,
                 history>>
  /\ UNCHANGED retryVars

NextTwoWriters == Next \/ OtherWriter

SpecTwoWriters == Init /\ [][NextTwoWriters]_vars

\* ------------------------------------------------- node/helpers.go
\* Largest tries that Retry is started with when fn is a given outcome list.
MaxTries == 3
\* Largest height a polled view holds.
MaxObserved == 1
\* Largest target n of a wait helper.
MaxTarget == 1

\* Source tags (iota).
Header == 0
Block == 1
Store == 2
\* Every valid tag and one that is not.
Sources == 0..3
\* Dynamic types of a Node: *FullNode, *LightNode, anything else.
NodeKinds == {"full", "light", "other"}
\* tries that the wait helpers pass to Retry.
WaitTries == 300

GetNodeHeightFromHeader(nd, h) ==
  IF nd = "full" THEN <<h, "nil">>
  ELSE IF nd = "light" THEN <<h, "nil">>
  ELSE <<0, "not a full or light node">>

\* Variant: a node without the data-sync service reports height zero.
GetNodeHeightFromBlockZero(nd, h) ==
  IF nd = "full" THEN <<h, "nil">> ELSE <<0, "nil">>

GetNodeHeightFromBlock(nd, h) ==
  IF nd = "full" THEN <<h, "nil">> ELSE <<0, "not a full node">>

\* storeErr: blockManager.GetStoreHeight returns an error.
GetNodeHeightFromStore(nd, h, storeErr) ==
  IF nd = "full"
    THEN IF storeErr THEN <<0, "store error">> ELSE <<h, "nil">>
    ELSE <<0, "not a full node">>

GetNodeHeight(nd, src, h, storeErr) ==
  CASE src = Header -> GetNodeHeightFromHeader(nd, h)
    [] src = Block  -> GetNodeHeightFromBlock(nd, h)
    [] src = Store  -> GetNodeHeightFromStore(nd, h, storeErr)
    [] OTHER        -> <<0, "invalid source">>

\* The closure of waitForAtLeastNBlocks: TRUE iff it returns nil.
WaitForAtLeastNBlocksFn(res, want) ==
  IF res[2] # "nil" THEN FALSE ELSE res[1] >= want

\* The closure of waitForAtLeastNDAIncludedHeight: TRUE iff it returns nil.
WaitForAtLeastNDAIncludedHeightFn(h, want) ==
  IF h = 0 THEN FALSE ELSE h >= want

\* One invocation of fn: whether it returns nil, and what it obtained.
Fn(h, storeErr) ==
  CASE rMode = "blocks" ->
         LET res == GetNodeHeight(node, source, h, storeErr)
         IN [ok |-> WaitForAtLeastNBlocksFn(res, nTarget), obs |-> res]
    [] rMode = "da" ->
         [ok |-> WaitForAtLeastNDAIncludedHeightFn(h, nTarget),
          obs |-> <<h, "nil">>]
    [] OTHER ->
         [ok |-> fnOutcomes[calls + 1], obs |-> <<0, "nil">>]

\* What one invocation can meet: the height of the view, a failing store.
PollHeights == IF rMode = "retry" THEN {0} ELSE 0..MaxObserved
PollStoreErrs ==
  IF rMode = "blocks" /\ source = Store /\ node = "full"
    THEN BOOLEAN ELSE {FALSE}

InitRetry ==
  /\ InitLoop
  /\ rMode \in {"retry", "blocks", "da"}
  /\ tries \in IF rMode = "retry" THEN (0 - 1)..MaxTries ELSE {WaitTries}
  /\ fnOutcomes \in IF rMode = "retry" THEN [1..MaxTries -> BOOLEAN] ELSE {<<>>}
  /\ node \in IF rMode = "blocks" THEN NodeKinds ELSE {"full"}
  /\ source \in IF rMode = "blocks" THEN Sources ELSE {Header}
  /\ nTarget \in IF rMode = "retry" THEN {0} ELSE 0..MaxTarget
  /\ i = 1
  /\ retErr = 0
  /\ rpc = "cond"
  /\ result = 0
  /\ calls = 0
  /\ viewHeight = 0
  /\ observed = <<0, "nil">>
  /\ seen = FALSE

\* Variant: the loop runs once more (i <= tries).
RetryCondOffByOne ==
  /\ rpc = "cond"
  /\ rpc' = IF i <= tries THEN "call" ELSE "final"
  /\ UNCHANGED <<rMode, tries, i, retErr, result, calls, fnOutcomes, node,
                 source, nTarget, viewHeight, observed, seen>>
  /\ UNCHANGED loopVars

\* line 137: i <= tries-1
RetryCond ==
  /\ rpc = "cond"
  /\ rpc' = IF i <= tries - 1 THEN "call" ELSE "final"
  /\ UNCHANGED <<rMode, tries, i, retErr, result, calls, fnOutcomes, node,
                 source, nTarget, viewHeight, observed, seen>>
  /\ UNCHANGED loopVars

\* Variant: a nil error does not end the loop.
RetryCallNoReturn ==
  /\ rpc = "call"
  /\ \E h \in PollHeights, storeErr \in PollStoreErrs :
       LET r == Fn(h, storeErr)
       IN /\ calls' = calls + 1
          /\ viewHeight' = h
          /\ observed' = r.obs
          /\ seen' = (seen \/ (r.obs[2] = "nil" /\ r.obs[1] >= nTarget))
          /\ retErr' = IF r.ok THEN 0 ELSE calls + 1
          /\ i' = i + 1
          /\ rpc' = "cond"
          /\ UNCHANGED result
  /\ UNCHANGED <<rMode, tries, fnOutcomes, node, source, nTarget>>
  /\ UNCHANGED loopVars

\* lines 138-142 and the i++ of line 137
RetryCall ==
  /\ rpc = "call"
  /\ \E h \in PollHeights, storeErr \in PollStoreErrs :
       LET r == Fn(h, storeErr)
       IN /\ calls' = calls + 1
          /\ viewHeight' = h
          /\ observed' = r.obs
          /\ seen' = (seen \/ (r.obs[2] = "nil" /\ r.obs[1] >= nTarget))
          /\ IF r.ok
               THEN /\ retErr' = 0
                    /\ result' = 0
                    /\ rpc' = "done"
                    /\ UNCHANGED i
               ELSE /\ retErr' = calls + 1
                    /\ i' = i + 1
                    /\ rpc' = "cond"
                    /\ UNCHANGED result
  /\ UNCHANGED <<rMode, tries, fnOutcomes, node, source, nTarget>>
  /\ UNCHANGED loopVars

\* Variant: fn is invoked but the error kept from the loop is returned.
RetryFinalStale ==
  /\ rpc = "final"
  /\ \E h \in PollHeights, storeErr \in PollStoreErrs :
       LET r == Fn(h, storeErr)
       IN /\ calls' = calls + 1
          /\ viewHeight' = h
          /\ observed' = r.obs
          /\ seen' = (seen \/ (r.obs[2] = "nil" /\ r.obs[1] >= nTarget))
          /\ result' = IF r.ok THEN 0 ELSE retErr
          /\ UNCHANGED retErr
          /\ rpc' = "done"
  /\ UNCHANGED <<rMode, tries, i, fnOutcomes, node, source, nTarget>>
  /\ UNCHANGED loopVars

\* line 144: return fn()
RetryFinal ==
  /\ rpc = "final"
  /\ \E h \in PollHeights, storeErr \in PollStoreErrs :
       LET r == Fn(h, storeErr)
       IN /\ calls' = calls + 1
          /\ viewHeight' = h
          /\ observed' = r.obs
          /\ seen' = (seen \/ (r.obs[2] = "nil" /\ r.obs[1] >= nTarget))
          /\ result' = IF r.ok THEN 0 ELSE calls + 1
          /\ retErr' = IF r.ok THEN 0 ELSE calls + 1
          /\ rpc' = "done"
  /\ UNCHANGED <<rMode, tries, i, fnOutcomes, node, source, nTarget>>
  /\ UNCHANGED loopVars

NextRetry ==
  \/ RetryCond
  \/ RetryCall
  \/ RetryFinal

SpecRetry == InitRetry /\ [][NextRetry]_vars

TypeOK ==
  /\ daIncludedHeight \in 0..MaxHeight
  /\ daIncluderCh \in 0..1
  /\ pc \in {"idle", "load", "query", "incLoad", "setFinal", "setMetadata",
             "cas", "panicked", "crashed", "exited"}
  /\ DurableHeight(metadata) \in 0..MaxHeight

\* ================================================================ claims
Durable == DurableHeight(metadata)
Confirmed == {h \in 1..(MaxHeight + 1) : <<h, "yes">> \in asked}

\* C1: the value of the DAIncludedHeight cell that a reader observes never
\* decreases from one state to the next, whatever the triggers, the oracle,
\* SetFinal and the store do.
C1_Monotonic == [][daIncludedHeight' >= daIncludedHeight]_vars

C1_Witness == daIncludedHeight >= 2 /\ pc = "query"

\* C2: every change of the cell made by the loop goes from H to exactly H+1,
\* and IsDAIncluded answered (true, nil) for that height in the same pass.
C2_Contiguous ==
  [][(pc = "cas" /\ daIncludedHeight' # daIncludedHeight)
       => /\ daIncludedHeight' = daIncludedHeight + 1
          /\ <<daIncludedHeight', "yes">> \in asked]_vars

C2_Witness ==
  /\ pc = "query"
  /\ daIncludedHeight = passStart + 2
  /\ Confirmed = {passStart + 1, passStart + 2}

\* C3: a pass that comes back to Idle has advanced the cell from the height H
\* it started at to exactly H+k, where H+1..H+k are the heights the oracle
\* confirmed in this pass and H+k+1 is the height it did not confirm.
C3_DrainToFrontier ==
  (pc = "idle" /\ asked # {})
    => /\ Confirmed = (passStart + 1)..daIncludedHeight
       /\ \E a \in {"err", "no"} : <<daIncludedHeight + 1, a>> \in asked
       /\ Cardinality(asked) = Cardinality(Confirmed) + 1

C3_Witness ==
  /\ pc = "idle"
  /\ asked # {}
  /\ daIncludedHeight >= passStart + 2
  /\ passes = 1

\* C4: when IsDAIncluded for H+1 answers an error or false, the same step ends
\* the pass: back to Idle, SetFinal not called, neither the record nor the
\* cell written, and no height above H+1 queried.
C4_StopAtFirstGap ==
  [][(/\ pc = "query"
      /\ pc' # "crashed"
      /\ asked' # asked
      /\ IsDAIncluded(NextHeightOf(currentDAIncluded)) # "yes")
       => /\ pc' = "idle"
          /\ UNCHANGED <<daIncludedHeight, metadata, finalized, steps>>
          /\ \A q \in asked' : q[1] <= daIncludedHeight + 1]_vars

C4_Witness ==
  /\ pc = "idle"
  /\ \E h \in Heights :
       /\ <<h, "no">> \in asked
       /\ h + 1 \in Heights
       /\ oracle[h + 1] = "yes"
       /\ daIncludedHeight = h - 1

\* C5: the record is written with H only after SetFinal(H) succeeded, and the
\* cell is changed to H only after the record holds H.
C5_CommitOrdering ==
  [][/\ (metadata' # metadata => DurableHeight(metadata') \in finalized)
     /\ (daIncludedHeight' # daIncludedHeight
           => /\ Durable = daIncludedHeight'
              /\ daIncludedHeight' \in finalized)]_vars

C5_Witness ==
  /\ pc = "query"
  /\ daIncludedHeight >= 1
  /\ Durable = daIncludedHeight
  /\ daIncludedHeight \in finalized
  /\ ~bootAdvanced

\* C6: in every state the cell is not larger than the durable record and not
\* larger than the highest height for which SetFinal has succeeded.
C6_ReaderSafe ==
  /\ daIncludedHeight <= Durable
  /\ daIncludedHeight = 0 \/ \E f \in finalized : daIncludedHeight <= f

C6_Witness ==
  /\ pc = "cas"
  /\ daIncludedHeight >= 1
  /\ Durable = daIncludedHeight + 1

\* C7: when SetFinal(H+1) fails the record is not written and the cell stays
\* at H; when SetFinal succeeds and the write of H+1 fails, the cell and the
\* record stay at H; no later step of the commit is executed.
C7_FailedCommit ==
  /\ (pc = "panicked" /\ err = "setFinal")
       => /\ steps = <<"setFinal">>
          /\ daIncludedHeight = currentHeight
          /\ Durable = currentHeight
  /\ (pc = "panicked" /\ err = "setMetadata")
       => /\ steps = <<"setFinal", "setMetadata">>
          /\ newHeight \in finalized
          /\ daIncludedHeight = currentHeight
          /\ Durable = currentHeight

C7_Witness ==
  /\ pc = "panicked"
  /\ err = "setMetadata"
  /\ currentHeight >= 1

\* C8: when SetFinal or the durable write fails, the process does not abort:
\* the pass stops and the loop is back in Idle.
C8_FailureReturnsToIdle ==
  [][(pc \in {"setFinal", "setMetadata"} /\ err' # "none") => pc' = "idle"]_vars

\* C9: a node start after a stop at any point of a commit of H+1 publishes H or
\* H+1, nothing lower than what was observed before, and H+1 only if
\* SetFinal(H+1) had succeeded.
C9_CrashConsistent ==
  [][(~Alive /\ pc' = "idle")
       => /\ daIncludedHeight' \in {daIncludedHeight, daIncludedHeight + 1}
          /\ (daIncludedHeight' # daIncludedHeight
                => daIncludedHeight' \in finalized)]_vars

C9_Witness == pc = "idle" /\ bootAdvanced /\ daIncludedHeight >= 2

\* C10: the channel never holds more than one signal, a send never blocks, and
\* signals raised during a pass cause at most one further pass.
C10_Coalescing ==
  /\ daIncluderCh <= 1
  /\ passes <= 1
  /\ Alive => ENABLED SendNonBlockingSignal

C10_Witness ==
  /\ pc = "idle"
  /\ burst = MaxBurst
  /\ passes = 1
  /\ daIncluderCh = 0

\* C11: every signal that is raised and not taken yet leads to the start of a
\* pass (the loop has taken the signal and is about to read the height),
\* unless the loop is cancelled, aborts or the process stops.
C11_NoLostWakeup == (Alive /\ daIncluderCh = 1) ~> (pc = "load" \/ ~Alive)

C11_Witness == pc = "load" /\ burst >= 2 /\ daIncluderCh = 0

\* C12 as stated: once cancelled, the next step of an Idle loop is to
\* terminate, also when a signal is pending.
C12_CancelWinsAlways ==
  [][(pc = "idle" /\ cancelled /\ pc' # pc /\ pc' # "crashed")
       => pc' = "exited"]_vars

\* C12 amended: once cancelled, the next step of an Idle loop with no signal
\* pending is to terminate, with no SetFinal call and no height write; with
\* a signal pending the select may take either case.
C12_CancelAtIdle ==
  [][(/\ pc = "idle"
      /\ cancelled
      /\ daIncluderCh = 0
      /\ pc' # pc
      /\ pc' # "crashed")
       => /\ pc' = "exited"
          /\ UNCHANGED <<daIncludedHeight, metadata, finalized, steps, asked>>]_vars

C12_Witness == pc = "exited" /\ daIncluderCh = 0 /\ daIncludedHeight >= 1

\* C13: when the compare-and-swap fails because another writer changed the
\* cell, the same step aborts the process: no return to Idle, no further
\* commit, and the other writer's value stays in the cell.
C13_CasFailureAborts ==
  [][(/\ pc = "cas"
      /\ daIncludedHeight # currentHeight
      /\ pc' # pc
      /\ pc' # "crashed")
       => /\ pc' = "panicked"
          /\ err' = "cas"
          /\ UNCHANGED <<daIncludedHeight, metadata, finalized>>]_vars

C13_Witness ==
  /\ pc = "panicked"
  /\ err = "cas"
  /\ daIncludedHeight # currentHeight
  /\ Durable = newHeight

\* C14: with one loop and no other writer the compare-and-swap never fails.
C14_CasNeverFails ==
  /\ pc = "cas" => daIncludedHeight = currentHeight
  /\ err # "cas"

C14_Witness == pc = "cas" /\ currentHeight >= 1 /\ daIncludedHeight = currentHeight

\* C20: the durable record equals the cell or the cell plus one, and equals
\* the cell whenever the loop is Idle.
C20_Agreement ==
  /\ Durable \in {daIncludedHeight, daIncludedHeight + 1}
  /\ pc = "idle" => Durable = daIncludedHeight

C20_Witness ==
  /\ pc = "idle"
  /\ bootAdvanced
  /\ asked # {}
  /\ Durable = daIncludedHeight

\* First invocation of fn that succeeds according to fnOutcomes, 0 if none.
FirstSuccess ==
  IF \E k \in DOMAIN fnOutcomes : fnOutcomes[k]
    THEN CHOOSE k \in DOMAIN fnOutcomes :
           fnOutcomes[k] /\ \A j \in 1..(k - 1) : ~fnOutcomes[j]
    ELSE 0

\* C15: for tries >= 1, when fn first succeeds on its j-th invocation and
\* j <= tries, Retry returns nil having invoked fn exactly j times.
C15_RetrySuccess ==
  (/\ rMode = "retry"
   /\ tries >= 1
   /\ FirstSuccess \in 1..tries)
    => /\ calls <= FirstSuccess
       /\ rpc = "done" => (result = 0 /\ calls = FirstSuccess)
       /\ calls = FirstSuccess => rpc = "done"

C15_Witness ==
  /\ rMode = "retry"
  /\ rpc = "done"
  /\ tries = 3
  /\ FirstSuccess = 3
  /\ calls = 3
  /\ result = 0

\* C16: for tries >= 1, when every invocation of fn fails, Retry invokes fn
\* exactly tries times and returns the error of the tries-th invocation.
C16_RetryExhausted ==
  (/\ rMode = "retry"
   /\ tries >= 1
   /\ \A k \in 1..tries : ~fnOutcomes[k])
    => /\ calls <= tries
       /\ rpc = "done" => (calls = tries /\ result = tries)

C16_Witness ==
  /\ rMode = "retry"
  /\ rpc = "done"
  /\ tries = 3
  /\ FirstSuccess = 0
  /\ result = 3

\* C17: for every integer tries (zero and negative values included, which
\* allow no attempt at all), Retry invokes fn at most tries times.
C17_AtMostTries ==
  rMode = "retry" => calls <= (IF tries < 0 THEN 0 ELSE tries)

\* C18: both wait helpers return nil as soon as one poll obtains a height
\* >= n (n = 0 and height 0 included), and return an error only if no poll
\* within the allowed attempts obtained a height >= n.
C18_WaitReturns ==
  rMode \in {"blocks", "da"}
    => /\ seen => (rpc = "done" /\ result = 0)
       /\ (rpc = "done" /\ result # 0) => (~seen /\ calls = WaitTries)

\* C19: getNodeHeight returns an error when the Block or Store view is asked
\* of a node that is not a FullNode, when the node is neither FullNode nor
\* LightNode, and when the tag is not Header, Block or Store; the Header view
\* of a FullNode or LightNode returns its height and no error.
C19_ViewIsolation ==
  (rMode = "blocks" /\ calls >= 1)
    => /\ (source \in {Block, Store} /\ node # "full") => observed[2] # "nil"
       /\ node = "other" => observed[2] # "nil"
       /\ source \notin {Header, Block, Store} => observed[2] # "nil"
       /\ (source = Header /\ node \in {"full", "light"})
            => observed = <<viewHeight, "nil">>

C19_Witness ==
  /\ rMode = "blocks"
  /\ calls >= 1
  /\ node = "light"
  /\ source = Block
  /\ observed = <<0, "not a full node">>
====
